---- MODULE Spec2Model ----
(***************************************************************************)
(* Model of the S3I client library: server_code/s3i/auth.py (Token,        *)
(* BaseAuthenticator, ClientAuthenticator, PasswordAuthenticator),         *)
(* server_code/s3i/broker.py (Thing, Broker) and                           *)
(* server_code/s3i/exceptions.py (S3IException and its subclasses).        *)
(*                                                                         *)
(* Callers are asyncio coroutines sharing one Broker / Authenticator.  A   *)
(* coroutine runs without interruption between two awaits, so each action *)
(* is one such stretch of a handler: from the call to the first awaited    *)
(* HTTP request, or from an HTTP response to the next awaited request or   *)
(* to the return / raise.                                                  *)
(*                                                                         *)
(* Representation.  Optional[x] is a sequence: None is << >> and a present *)
(* value v is <<v>>.  datetime values are integers (clock ticks) and a     *)
(* timedelta of n seconds is the integer n.  The pieces of a request URL   *)
(* and the messages of the errors that name the identity provider are     *)
(* sequences of character codes, because the source has characters (BEL,   *)
(* code 7; superscript three, code 179) that no TLA+ string literal can    *)
(* hold; every other text is a TLA+ string, except in error rendering,     *)
(* where texts are sequences of character codes throughout.                *)
(*                                                                         *)
(* Specifications.  Spec: two callers calling obtain_token, send and       *)
(* receive concurrently.  SpecObjects: Thing, Authenticator and Broker     *)
(* objects being constructed and ending.  SpecRender: errors constructed   *)
(* and rendered by __str__.  SpecTokens: Tokens constructed and callers    *)
(* obtaining tokens, the Tokens being objects with an address.             *)
(***************************************************************************)
EXTENDS Integers, Sequences, FiniteSets, TLC

\* --------------------------------------------------------------- bounds
\* The clock runs from 0 to MaxTime.
MaxTime == 2
\* The identity provider grants lifetimes (expires_in, refresh_expires_in)
\* of at most MaxLife seconds.
MaxLife == 2
\* At most MaxHeap Token objects are constructed.
MaxHeap == 2

\* The coroutines that call into the library.
Callers == {"c1", "c2"}

\* --------------------------------------------------------------- Optional
None == << >>
Some(v) == <<v>>
IsNone(o) == o = << >>
The(o) == o[1]

\* --------------------------------------------------------------- texts
\* auth.py:82, the one error body that means invalid client credentials.
InvalidClientBody == "{\"error\":\"invalid_client\",\"error_description\":\"Invalid client credentials\"}"

\* broker.py:10, "https://broker.s3i.vswf.dev" as character codes.
DEFAULT_BROKER_URL ==
    <<104, 116, 116, 112, 115, 58, 47, 47, 98, 114, 111, 107, 101, 114, 46,
      115, 51, 105, 46, 118, 115, 119, 102, 46, 100, 101, 118>>

\* The id of the Thing, "t".
ThingId == <<116>>

\* ------------------------------------------------------------ exceptions
\* exceptions.py:7-42: the class of an exception and the classes it
\* derives from (itself included).  NameError is Python's builtin.
Bases(type) ==
    CASE type = "InvalidCredentialsException" ->
            {"InvalidCredentialsException", "AuthenticationException", "S3IException"}
      [] type = "AuthenticationException" ->
            {"AuthenticationException", "S3IException"}
      [] type = "S3IException" -> {"S3IException"}
      [] OTHER -> {type}

IsInstance(exc, cls) == cls \in Bases(exc.type)

\* exceptions.py:10-17, S3IException.__init__: absent fields default to None.
S3IException(type, message, headers, body, status_code, response) ==
    [type |-> type, message |-> message, headers |-> headers, body |-> body,
     status_code |-> status_code, response |-> response]

\* ------------------------------------------------------------------ Token
\* auth.py:13-20
Token(auth_scheme, token_content, expires_at, refresh_token, refresh_expires_at) ==
    [auth_scheme |-> auth_scheme, token_content |-> token_content,
     expires_at |-> expires_at, refresh_token |-> refresh_token,
     refresh_expires_at |-> refresh_expires_at]

\* The expiry times a directly constructed Token is given.
TokenTimes == 0..MaxLife

\* auth.py:22-24, Token.expired at clock value t: datetime.now() < expires_at
expired(tok, t) == t < tok.expires_at

\* auth.py:26-28, Token.refresh_expired at clock value t
refresh_expired(tok, t) == t < tok.refresh_expires_at

\* auth.py:30-32, Token.full_token
full_token(tok) == tok.auth_scheme \o " " \o tok.token_content

\* auth.py:34-36, Token.header
header(tok) == [Authorization |-> full_token(tok)]

\* ------------------------------------------------------------------ Thing
\* The queue names a caller may pass to Thing(...): None, an explicit name
\* ("m" for the message queue, "e" for the event queue) or the empty string.
MessageQueueArgs == {None, Some(<<109>>), Some(<< >>)}
EventQueueArgs == {None, Some(<<101>>), Some(<< >>)}

\* The ids a Thing is constructed with ("t", "t2").
ThingIds == {<<116>>, <<116, 50>>}

\* A __post_init__ that replaces every falsy message queue, the empty
\* string included.
ThingMessageQueueIfFalsy(id, arg) ==
    IF IsNone(arg) \/ The(arg) = << >>
    THEN <<115, 51, 105, 98, 115, 58, 47, 47>> \o id
    ELSE The(arg)

\* broker.py:23-27, the message queue after Thing.__post_init__:
\* f"s3ibs://{self.id}" when none was given.
ThingMessageQueue(id, arg) ==
    IF IsNone(arg) THEN <<115, 51, 105, 98, 115, 58, 47, 47>> \o id ELSE The(arg)

\* broker.py:29-33, the event queue after Thing.__post_init__:
\* f"s3ib://{self.id}/event" when none was given.
ThingEventQueue(id, arg) ==
    IF IsNone(arg)
    THEN <<115, 51, 105, 98, 58, 47, 47>> \o id \o <<47, 101, 118, 101, 110, 116>>
    ELSE The(arg)

\* broker.py:25-27 and 31-33, a logger.warning call: the fixed text of the
\* f-string and the queue name it interpolates.
Warning(text, queue) == [level |-> "WARNING", text |-> text, queue |-> queue]

\* broker.py:21-33, what Thing.__post_init__ logs, in order.
ThingWarnings(id, mq, eq) ==
    (IF IsNone(mq)
     THEN <<Warning("No message queue provided. Generated default message queue: ",
                    ThingMessageQueue(id, mq))>>
     ELSE << >>)
    \o
    (IF IsNone(eq)
     THEN <<Warning("No event queue provided. Generated default event queue: ",
                    ThingEventQueue(id, eq))>>
     ELSE << >>)

\* broker.py:13-33, the Thing that Thing(id, secret, mq, eq) constructs.
Thing(id, secret, mq, eq) ==
    [id |-> id, secret |-> secret,
     message_queue |-> ThingMessageQueue(id, mq),
     event_queue |-> ThingEventQueue(id, eq)]

\* ----------------------------------------------------------- environment
\* What the identity provider may answer.  A reply below 400 carries the
\* token document (spec section 6); its lifetimes are in seconds.  A reply
\* of 400 or more carries an error text.
IdpStatuses == {200, 401}
IdpErrorTexts == {InvalidClientBody, "{\"error\":\"unauthorized_client\"}"}
AccessTokens == {"at1", "at2"}
RefreshTokens == {"rt1"}
IdpReplies ==
    [status_code : {200}, text : {"token document"},
     token_type : {"Bearer"}, access_token : AccessTokens,
     expires_in : 1..MaxLife, refresh_token : RefreshTokens,
     refresh_expires_in : 0..MaxLife]
    \cup
    [status_code : IdpStatuses \ {200}, text : IdpErrorTexts,
     token_type : {"Bearer"}, access_token : {"at1"},
     expires_in : {1}, refresh_token : {"rt1"}, refresh_expires_in : {0}]

\* What the broker may answer: any of the statuses with a JSON document
\* (spec section 6) or with a text that is no JSON document.
BrokerStatuses == {200, 201, 202, 400}
JsonTexts == {"{\"a\":1}", "{\"a\":2}"}
BrokerHeaders == {[Server |-> "broker"]}
BrokerReplies ==
    [status_code : BrokerStatuses, headers : BrokerHeaders,
     text : JsonTexts \cup {"busy"}]

\* response.json(): the value of a JSON text, None for a text that is no
\* JSON document (the call raises).
ParseJson(text) ==
    CASE text = "{\"a\":1}" -> Some([a |-> 1])
      [] text = "{\"a\":2}" -> Some([a |-> 2])
      [] OTHER -> None

\* The arguments callers pass to send: an endpoint ("q") and a message.
SendEndpoints == {<<113>>}
Messages == {[a |-> 1], [a |-> 2]}

\* ------------------------------------------------------------------ state
VARIABLES
    now,                \* the clock, datetime.now()
    timedelta_defined,  \* whether the name timedelta resolves in auth.py
    broker_imports,     \* whether broker.py compiles (line 80)
    authenticator,      \* the class of the Authenticator
    token,              \* BaseAuthenticator.__token, an Optional[Token]
    issued,             \* the latest token document the identity provider sent
    message_queue,      \* Broker.message_queue (None without a Broker)
    event_queue,        \* Broker.event_queue
    pc,                 \* where each caller's coroutine is suspended
    call,               \* each caller's current (or last) call
    thing_args,         \* the arguments of the latest Thing(...) call
    thing,              \* the Thing that call constructed
    warnings,           \* what that construction logged at warning level
    objects,            \* the Authenticator / Broker objects and their clients
    closes,             \* the close() calls made: <<component, client>>
    error,              \* an S3IException that was constructed
    rendered,           \* str(error), once it was taken
    heap,               \* the Token objects constructed so far, by address
    cache,              \* the address in BaseAuthenticator.__token (0: None)
    held                \* the addresses obtain_token returned to callers

\* The variables of the object life cycle, of error rendering and of the
\* Token objects; the call-level actions leave them alone.
objvars == <<thing_args, thing, warnings, objects, closes>>
rendervars == <<error, rendered>>
tokvars == <<heap, cache, held>>
auxvars == <<objvars, rendervars, tokvars>>

\* What the build decides: auth.py:99 uses timedelta, which auth.py never
\* imports, so the name resolves in no build (timedelta_defined is FALSE in
\* every initial state); broker.py:80 has a backslash inside the expression
\* part of an f-string, which is a SyntaxError before Python 3.12 (the
\* repository names no version).
build == <<timedelta_defined, broker_imports>>

vars == <<now, build, issued, authenticator, token, message_queue,
          event_queue, pc, call, auxvars>>

\* A call that has not started.  idp_requests and broker_requests are the
\* requests the call has issued so far, idp_reply and broker_reply the
\* answers it has received, returned / raised its result.
NoCall ==
    [op |-> "none", endpoint |-> << >>, message |-> None,
     event |-> FALSE, all |-> FALSE,
     idp_requests |-> << >>, idp_reply |-> None,
     broker_requests |-> << >>, broker_reply |-> None,
     outcome |-> "pending", returned |-> None, raised |-> None]

\* ---------------------------------------------------------- Authenticator
\* auth.py:142-148 and 169-177, _build_auth_payload of the two subclasses.
\* The fields a grant does not have are None.
BuildAuthPayload(cls) ==
    IF cls = "ClientAuthenticator"
    THEN [grant_type |-> "client_credentials", client_id |-> Some("id"),
          client_secret |-> Some("secret"), username |-> None,
          password |-> None, refresh_token |-> None]
    ELSE [grant_type |-> "password", client_id |-> Some("id"),
          client_secret |-> Some("secret"), username |-> Some("user"),
          password |-> Some("pw"), refresh_token |-> None]

\* auth.py:108-111, the payload of _refresh_token.
RefreshPayload(tok) ==
    [grant_type |-> "refresh_token", client_id |-> None, client_secret |-> None,
     username |-> None, password |-> None,
     refresh_token |-> Some(tok.refresh_token)]

\* auth.py:54-61, the branch obtain_token takes on cached token tk at clock t.
Branch(tk, t) ==
    IF ~IsNone(tk) /\ ~expired(The(tk), t) THEN "valid"
    ELSE IF ~IsNone(tk) /\ ~refresh_expired(The(tk), t) THEN "refresh"
    ELSE "fetch"

\* What a call keeps of an identity provider's reply: response.status_code
\* and response.text.
IdpReplySeen(reply) == [status_code |-> reply.status_code, text |-> reply.text]

\* auth.py:79 and 116: the replies the two request paths treat as failures.
IdpFailed(status_code) == status_code >= 400

\* The messages "Could not obtain token from S3I Identity Provider."
\* (auth.py:65 and 90) and "Could not refresh token from S3I Identity
\* Provider." (auth.py:118) as character codes: the source writes the 3 of
\* S3I as the superscript three, code 179.
CouldNotObtain ==
    <<67, 111, 117, 108, 100, 32, 110, 111, 116, 32, 111, 98, 116, 97, 105,
      110, 32, 116, 111, 107, 101, 110, 32, 102, 114, 111, 109, 32, 83, 179,
      73, 32, 73, 100, 101, 110, 116, 105, 116, 121, 32, 80, 114, 111, 118,
      105, 100, 101, 114, 46>>
CouldNotRefresh ==
    <<67, 111, 117, 108, 100, 32, 110, 111, 116, 32, 114, 101, 102, 114, 101,
      115, 104, 32, 116, 111, 107, 101, 110, 32, 102, 114, 111, 109, 32, 83,
      179, 73, 32, 73, 100, 101, 110, 116, 105, 116, 121, 32, 80, 114, 111,
      118, 105, 100, 101, 114, 46>>

\* A _get_token_from_idp that does not look at the body of a failed reply.
FetchErrorUnclassified(reply) ==
    S3IException("AuthenticationException",
                 CouldNotObtain,
                 None, None, Some(reply.status_code), Some(reply.text))

\* auth.py:79-93, the exception _get_token_from_idp raises on a failed reply.
FetchError(reply) ==
    IF reply.text = InvalidClientBody
    THEN S3IException("InvalidCredentialsException", "Invalid client credentials.",
                      None, None, Some(reply.status_code), Some(reply.text))
    ELSE S3IException("AuthenticationException",
                      CouldNotObtain,
                      None, None, Some(reply.status_code), Some(reply.text))

\* auth.py:116-121, the exception _refresh_token raises on a failed reply.
RefreshError(reply) ==
    S3IException("AuthenticationException",
                 CouldNotRefresh,
                 None, None, Some(reply.status_code), Some(reply.text))

\* auth.py:63-66, the exception obtain_token raises when its token is None.
NoTokenError ==
    S3IException("AuthenticationException",
                 CouldNotObtain,
                 None, None, None, None)

\* auth.py:99-102 uses timedelta, which auth.py:1-6 never imports:
\* building the Token raises NameError.
TimedeltaNameError ==
    S3IException("NameError", "name 'timedelta' is not defined",
                 None, None, None, None)

\* auth.py:95-103, the Token built from a reply at clock t (the two
\* datetime.now() of one expression read the same tick).
TokenFromReply(reply, t) ==
    Token(reply.token_type, reply.access_token, t + reply.expires_in,
          reply.refresh_token, t + reply.refresh_expires_in)

\* ----------------------------------------------------------------- Broker
\* broker.py:60, the URL send posts to: f"{self.broker_url}/{endpoint}".
SendUrl(endpoint) == DEFAULT_BROKER_URL \o <<47>> \o endpoint

\* broker.py:77, the queue receive reads.
ReceiveEndpoint(event) == IF event THEN event_queue ELSE message_queue

\* broker.py:80, the text '\all' of the source: the escape \a is the
\* character BEL (code 7), followed by "ll".
AllSuffix == <<7, 108, 108>>

\* broker.py:80, the URL receive gets:
\* f"{self.broker_url}/{endpoint}{'\all' if all else ''}".
ReceiveUrl(endpoint, all) ==
    DEFAULT_BROKER_URL \o <<47>> \o endpoint \o (IF all THEN AllSuffix ELSE << >>)

\* broker.py:59-63, the request send issues with token tok.
SendRequest(endpoint, message, tok) ==
    [method |-> "POST", url |-> SendUrl(endpoint),
     content_type |-> Some("application/json"),
     authorization |-> header(tok).Authorization,
     json |-> message]

\* broker.py:79-83, the request receive issues with token tok.
ReceiveRequest(endpoint, all, tok) ==
    [method |-> "GET", url |-> ReceiveUrl(endpoint, all),
     content_type |-> None,
     authorization |-> header(tok).Authorization,
     json |-> None]

\* broker.py:65, the replies send takes as success.
SendSucceeded(status_code) == status_code = 201

\* broker.py:85, the replies receive takes as success.
ReceiveSucceeded(status_code) == status_code = 200

\* "Failed to send message to " and "Failed to get message from ", the
\* fixed texts of the f-strings of broker.py:67 and 87, as character codes.
FailedToSend ==
    <<70, 97, 105, 108, 101, 100, 32, 116, 111, 32, 115, 101, 110, 100, 32,
      109, 101, 115, 115, 97, 103, 101, 32, 116, 111, 32>>
FailedToGet ==
    <<70, 97, 105, 108, 101, 100, 32, 116, 111, 32, 103, 101, 116, 32, 109,
      101, 115, 115, 97, 103, 101, 32, 102, 114, 111, 109, 32>>

\* broker.py:66-72, the exception send raises; its message is
\* f"Failed to send message to {endpoint}.", a text of character codes.
SendError(endpoint, message, reply) ==
    S3IException("S3IException", FailedToSend \o endpoint \o <<46>>,
                 Some(reply.headers), message, Some(reply.status_code),
                 Some(reply.text))

\* broker.py:86-91, the exception receive raises; its message is
\* f"Failed to get message from {endpoint}.", a text of character codes.
ReceiveError(endpoint, reply) ==
    S3IException("S3IException", FailedToGet \o endpoint \o <<46>>,
                 Some(reply.headers), None, Some(reply.status_code),
                 Some(reply.text))

\* response.json() on a text that is no JSON document (broker.py:94).
JSONDecodeError ==
    S3IException("JSONDecodeError", "Expecting value", None, None, None, None)

\* ------------------------------------------------------------ transitions
\* A step of a call yields the coroutine's next suspension point and the
\* call's record.
Raise(c, exc) ==
    [pc |-> "done", call |-> [c EXCEPT !.outcome = "raised", !.raised = Some(exc)]]

Return(c, value) ==
    [pc |-> "done", call |-> [c EXCEPT !.outcome = "returned", !.returned = value]]

\* auth.py:67-69 and the caller's next lines: obtain_token returns tok to
\* its caller, which is the user (auth.py:69), send (broker.py:58-63) or
\* receive (broker.py:78-83); send and receive go on to their broker request.
AfterObtain(c, tok) ==
    CASE c.op = "send" ->
            [pc |-> "send_wait",
             call |-> [c EXCEPT !.broker_requests =
                          Append(@, SendRequest(c.endpoint, c.message, tok))]]
      [] c.op = "receive" ->
            [pc |-> "receive_wait",
             call |-> [c EXCEPT !.broker_requests =
                          Append(@, ReceiveRequest(c.endpoint, c.all, tok))]]
      [] OTHER -> Return(c, Some(tok))

\* auth.py:52-61, obtain_token up to its first await (or, on the branch
\* that awaits nothing, to its return).
EnterObtainToken(c) ==
    LET b == Branch(token, now)
    IN  CASE b = "valid" -> AfterObtain(c, The(token))
          [] b = "refresh" ->
                [pc |-> "refresh_wait",
                 call |-> [c EXCEPT !.idp_requests =
                              Append(@, RefreshPayload(The(token)))]]
          [] OTHER ->
                [pc |-> "fetch_wait",
                 call |-> [c EXCEPT !.idp_requests =
                              Append(@, BuildAuthPayload(authenticator))]]

\* A _get_token_from_idp that answers a failed reply by asking again.
RetryOnFetchFailure(c, reply) ==
    [pc |-> "fetch_wait",
     call |-> [c EXCEPT !.idp_requests =
                  Append(@, BuildAuthPayload(authenticator))]]

\* auth.py:79-93, _get_token_from_idp on a failed reply: it raises, and the
\* exception leaves obtain_token (and send / receive) at once.
OnFetchFailure(c, reply) == Raise(c, FetchError(reply))

\* The identity provider's side of a reply that arrives at the current
\* time: a reply below 400 is a token document with its lifetimes (the
\* response body of auth.py:95-102), kept with the time it arrived at; a
\* failed reply issues nothing.
Issue(reply) ==
    IF IdpFailed(reply.status_code) THEN issued
    ELSE Some([at |-> now, reply |-> reply])

\* auth.py:116-121, _refresh_token on a failed reply.
OnRefreshFailure(c, reply) == Raise(c, RefreshError(reply))

\* No finished call is waiting to hand its result to its caller.  A result
\* is handed over (Deliver) before anything else runs: the hand-over changes
\* nothing another coroutine reads, so no interleaving is lost.
Delivered == \A q \in Callers : pc[q] # "done"

\* Caller p is not inside a call and may start one.
Idle(p) == pc[p] = "idle" /\ Delivered

Step(p, r) ==
    /\ pc' = [pc EXCEPT ![p] = r.pc]
    /\ call' = [call EXCEPT ![p] = r.call]

\* auth.py:52, a caller invokes obtain_token on the Authenticator.
CallObtainToken(p) ==
    /\ Idle(p)
    /\ Step(p, EnterObtainToken([NoCall EXCEPT !.op = "obtain_token"]))
    /\ UNCHANGED auxvars
    /\ UNCHANGED <<now, build, issued, authenticator, token,
                   message_queue, event_queue>>

\* broker.py:56-63, a caller invokes send(endpoint, message).
CallSend(p) ==
    /\ Idle(p)
    /\ broker_imports
    /\ authenticator = "ClientAuthenticator"
    /\ \E e \in SendEndpoints, m \in Messages :
          Step(p, EnterObtainToken([NoCall EXCEPT !.op = "send",
                                       !.endpoint = e, !.message = Some(m)]))
    /\ UNCHANGED auxvars
    /\ UNCHANGED <<now, build, issued, authenticator, token,
                   message_queue, event_queue>>

\* broker.py:75-83, a caller invokes receive(event, all).
CallReceive(p) ==
    /\ Idle(p)
    /\ broker_imports
    /\ authenticator = "ClientAuthenticator"
    /\ \E ev \in BOOLEAN, al \in BOOLEAN :
          Step(p, EnterObtainToken([NoCall EXCEPT !.op = "receive",
                                       !.endpoint = ReceiveEndpoint(ev),
                                       !.event = ev, !.all = al]))
    /\ UNCHANGED auxvars
    /\ UNCHANGED <<now, build, issued, authenticator, token,
                   message_queue, event_queue>>

\* auth.py:77-103 and 61-69: the identity provider answers the request of
\* _get_token_from_idp.
OnFetchReply(p, reply) ==
    LET c == [call[p] EXCEPT !.idp_reply = Some(IdpReplySeen(reply))]
        tok == TokenFromReply(reply, now)
    IN  /\ issued' = Issue(reply)
        /\ IF IdpFailed(reply.status_code)
           THEN Step(p, OnFetchFailure(c, reply)) /\ UNCHANGED token
           ELSE IF ~timedelta_defined
           THEN Step(p, Raise(c, TimedeltaNameError)) /\ UNCHANGED token
           ELSE /\ token' = Some(tok)
                /\ Step(p, AfterObtain(c, tok))

\* The identity provider answers caller p's request of _get_token_from_idp.
FetchReply(p) ==
    /\ pc[p] = "fetch_wait"
    /\ Delivered
    /\ \E reply \in IdpReplies : OnFetchReply(p, reply)
    /\ UNCHANGED auxvars
    /\ UNCHANGED <<now, build, authenticator, message_queue, event_queue>>

\* auth.py:114-121 and 58-66: the identity provider answers the request of
\* _refresh_token.  On a reply below 400 the method ends without a return
\* statement, so obtain_token stores None and raises.
OnRefreshReply(p, reply) ==
    LET c == [call[p] EXCEPT !.idp_reply = Some(IdpReplySeen(reply))]
    IN  /\ issued' = Issue(reply)
        /\ IF IdpFailed(reply.status_code)
           THEN Step(p, OnRefreshFailure(c, reply)) /\ UNCHANGED token
           ELSE /\ token' = None
                /\ Step(p, Raise(c, NoTokenError))

\* The identity provider answers caller p's request of _refresh_token.
RefreshReply(p) ==
    /\ pc[p] = "refresh_wait"
    /\ Delivered
    /\ \E reply \in IdpReplies : OnRefreshReply(p, reply)
    /\ UNCHANGED auxvars
    /\ UNCHANGED <<now, build, authenticator, message_queue, event_queue>>

\* broker.py:63-73, the broker answers the POST of send.
SendReply(p) ==
    /\ pc[p] = "send_wait"
    /\ Delivered
    /\ \E reply \in BrokerReplies :
          LET c == [call[p] EXCEPT !.broker_reply = Some(reply)]
          IN  IF ~SendSucceeded(reply.status_code)
              THEN Step(p, Raise(c, SendError(c.endpoint, c.message, reply)))
              ELSE Step(p, Return(c, None))
    /\ UNCHANGED auxvars
    /\ UNCHANGED <<now, build, issued, authenticator, token,
                   message_queue, event_queue>>

\* broker.py:83-94, the broker answers the GET of receive.
ReceiveReply(p) ==
    /\ pc[p] = "receive_wait"
    /\ Delivered
    /\ \E reply \in BrokerReplies :
          LET c == [call[p] EXCEPT !.broker_reply = Some(reply)]
          IN  IF ~ReceiveSucceeded(reply.status_code)
              THEN Step(p, Raise(c, ReceiveError(c.endpoint, reply)))
              ELSE IF IsNone(ParseJson(reply.text))
              THEN Step(p, Raise(c, JSONDecodeError))
              ELSE Step(p, Return(c, ParseJson(reply.text)))
    /\ UNCHANGED auxvars
    /\ UNCHANGED <<now, build, issued, authenticator, token,
                   message_queue, event_queue>>

\* The result of a finished call is handed to its caller, which may then
\* start another call.
Deliver(p) ==
    /\ pc[p] = "done"
    /\ pc' = [pc EXCEPT ![p] = "idle"]
    /\ call' = [call EXCEPT ![p] = NoCall]
    /\ UNCHANGED auxvars
    /\ UNCHANGED <<now, build, issued, authenticator, token,
                   message_queue, event_queue>>

\* Time passes.
Tick ==
    /\ Delivered
    /\ now < MaxTime
    /\ now' = now + 1
    /\ UNCHANGED auxvars
    /\ UNCHANGED <<build, issued, authenticator, token, message_queue,
                   event_queue, pc, call>>

\* ------------------------------------------------------- error rendering
\* Texts are sequences of character codes.  str.strip() removes the
\* whitespace characters at both ends (exceptions.py:34).
IsSpace(ch) ==
    ch \in {9, 10, 11, 12, 13, 28, 29, 30, 31, 32, 133, 160, 5760,
            8232, 8233, 8239, 8287, 12288} \cup (8192..8202)

RECURSIVE LStrip(_)
LStrip(s) == IF s # << >> /\ IsSpace(Head(s)) THEN LStrip(Tail(s)) ELSE s

RECURSIVE RStrip(_)
RStrip(s) ==
    IF s # << >> /\ IsSpace(s[Len(s)])
    THEN RStrip(SubSeq(s, 1, Len(s) - 1))
    ELSE s

Strip(s) == RStrip(LStrip(s))

\* str(n) of a natural number n, as the f-string of exceptions.py:30 takes it.
RECURSIVE Decimal(_)
Decimal(n) ==
    IF n < 10 THEN <<48 + n>> ELSE Decimal(n \div 10) \o <<48 + (n % 10)>>

\* sep.join(parts), exceptions.py:34.
RECURSIVE Join(_, _)
Join(sep, parts) ==
    IF parts = << >> THEN << >>
    ELSE IF Len(parts) = 1 THEN parts[1]
    ELSE parts[1] \o sep \o Join(sep, Tail(parts))

\* The texts "Headers: ", "Body: ", "Status Code: ", "Response: " of
\* exceptions.py:25-32.
HeadersPrefix == <<72, 101, 97, 100, 101, 114, 115, 58, 32>>
BodyPrefix == <<66, 111, 100, 121, 58, 32>>
StatusCodePrefix == <<83, 116, 97, 116, 117, 115, 32, 67, 111, 100, 101, 58, 32>>
ResponsePrefix == <<82, 101, 115, 112, 111, 110, 115, 101, 58, 32>>

\* A __str__ that appends a field only when its value is truthy.
MetadataIfTruthy(e) ==
    (IF e.headers \notin {None, Some(<< >>)}
     THEN <<HeadersPrefix \o The(e.headers)>> ELSE << >>)
    \o (IF e.body \notin {None, Some(<< >>)}
        THEN <<BodyPrefix \o The(e.body)>> ELSE << >>)
    \o (IF e.status_code \notin {None, Some(0)}
        THEN <<StatusCodePrefix \o Decimal(The(e.status_code))>> ELSE << >>)
    \o (IF e.response \notin {None, Some(<< >>)}
        THEN <<ResponsePrefix \o The(e.response)>> ELSE << >>)

\* exceptions.py:22-32, the list metadata of __str__ (headers, body and
\* response being texts, the status code an int).
Metadata(e) ==
    (IF ~IsNone(e.headers)
     THEN <<HeadersPrefix \o The(e.headers)>> ELSE << >>)
    \o (IF ~IsNone(e.body)
        THEN <<BodyPrefix \o The(e.body)>> ELSE << >>)
    \o (IF ~IsNone(e.status_code)
        THEN <<StatusCodePrefix \o Decimal(The(e.status_code))>> ELSE << >>)
    \o (IF ~IsNone(e.response)
        THEN <<ResponsePrefix \o The(e.response)>> ELSE << >>)

\* exceptions.py:19-34, S3IException.__str__:
\* f"{base_message} {'| '.join(metadata)}".strip()
Str(e) == Strip(e.message \o <<32>> \o Join(<<124, 32>>, Metadata(e)))

\* The arguments errors are constructed with: the classes, a message
\* ("" or "E"), headers ("h"), a body ("" or "b"), a status code and a
\* response ("r", "r" and a line feed, or "r" and a no-break space).
ErrorTypes == {"S3IException", "AuthenticationException",
               "InvalidCredentialsException"}
ErrorMessages == {<< >>, <<69>>}
ErrorHeaders == {None, Some(<<104>>)}
ErrorBodies == {None, Some(<< >>), Some(<<98>>)}
ErrorStatusCodes == {None, Some(0), Some(401)}
ErrorResponses == {None, Some(<<114>>), Some(<<114, 10>>), Some(<<114, 160>>)}

\* exceptions.py:11-17, an error is constructed.
NewError ==
    /\ \E ty \in ErrorTypes, m \in ErrorMessages, h \in ErrorHeaders,
          b \in ErrorBodies, sc \in ErrorStatusCodes, r \in ErrorResponses :
          error' = Some(S3IException(ty, m, h, b, sc, r))
    /\ rendered' = None
    /\ UNCHANGED <<objvars, tokvars>>
    /\ UNCHANGED <<now, build, issued, authenticator, token,
                   message_queue, event_queue, pc, call>>

\* exceptions.py:19-34, str(error) is taken.
StrError ==
    /\ ~IsNone(error)
    /\ rendered' = Some(Str(The(error)))
    /\ UNCHANGED <<error, objvars, tokvars>>
    /\ UNCHANGED <<now, build, issued, authenticator, token,
                   message_queue, event_queue, pc, call>>

\* ---------------------------------------------------------- object life
\* The objects that hold an HTTP client: a stand-alone Authenticator, a
\* Broker, and the ClientAuthenticator the Broker constructs.
Components == {"authenticator", "broker", "broker_auth"}

\* What a caller passes as client: nothing, or the client it made itself.
ClientArgs == {None, Some("shared")}

\* A component that was not constructed (yet).
NoObject == [state |-> "none", client |-> "", external_client |-> FALSE]

\* auth.py:45 and broker.py:44, self.client = client or httpx.AsyncClient():
\* the client made by component self carries the component's name.
ChosenClient(arg, self) == IF IsNone(arg) THEN self ELSE The(arg)

\* auth.py:46 and broker.py:45, self.external_client = client is None.
ExternalClient(arg) == IsNone(arg)

\* auth.py:40-46 and broker.py:43-45, the object after __init__.
Constructed(arg, self) ==
    [state |-> "alive", client |-> ChosenClient(arg, self),
     external_client |-> ExternalClient(arg)]

\* auth.py:48-50 and broker.py:52-54, __del__: the close() calls after the
\* component c ended.
CloseAtDel(c) ==
    IF ~objects[c].external_client
    THEN closes \cup {<<c, objects[c].client>>}
    ELSE closes

\* broker.py:13-33, a caller constructs a Thing; the warnings are those of
\* this construction.
NewThing ==
    /\ broker_imports
    /\ \E id \in ThingIds, mq \in MessageQueueArgs, eq \in EventQueueArgs :
          /\ thing_args' = Some([id |-> id, message_queue |-> mq,
                                  event_queue |-> eq])
          /\ thing' = Some(Thing(id, "s", mq, eq))
          /\ warnings' = ThingWarnings(id, mq, eq)
    /\ UNCHANGED <<objects, closes, rendervars, tokvars>>
    /\ UNCHANGED <<now, build, issued, authenticator, token,
                   message_queue, event_queue, pc, call>>

\* auth.py:40-46, a caller constructs an Authenticator.
NewAuthenticator ==
    /\ objects["authenticator"].state = "none"
    /\ \E arg \in ClientArgs :
          objects' = [objects EXCEPT
                         !["authenticator"] = Constructed(arg, "authenticator")]
    /\ UNCHANGED <<thing_args, thing, warnings, closes, rendervars, tokvars>>
    /\ UNCHANGED <<now, build, issued, authenticator, token,
                   message_queue, event_queue, pc, call>>

\* broker.py:37-50, a caller constructs a Broker for the Thing: the Broker
\* hands its client to the ClientAuthenticator it constructs.
NewBroker ==
    /\ broker_imports
    /\ objects["broker"].state = "none"
    /\ ~IsNone(thing)
    /\ \E arg \in ClientArgs :
          LET broker == Constructed(arg, "broker")
          IN  objects' = [objects EXCEPT
                             !["broker"] = broker,
                             !["broker_auth"] =
                                 Constructed(Some(broker.client), "broker_auth")]
    /\ message_queue' = The(thing).message_queue
    /\ event_queue' = The(thing).event_queue
    /\ UNCHANGED <<thing_args, thing, warnings, closes, rendervars, tokvars>>
    /\ UNCHANGED <<now, build, issued, authenticator, token, pc, call>>

\* auth.py:48-50 and broker.py:52-54, component c reaches the end of its
\* life.  The Broker holds its Authenticator, which therefore ends after it.
Del(c) ==
    /\ objects[c].state = "alive"
    /\ c = "broker_auth" => objects["broker"].state = "dead"
    /\ objects' = [objects EXCEPT ![c].state = "dead"]
    /\ closes' = CloseAtDel(c)
    /\ UNCHANGED <<thing_args, thing, warnings, rendervars, tokvars>>
    /\ UNCHANGED <<now, build, issued, authenticator, token,
                   message_queue, event_queue, pc, call>>

\* ---------------------------------------------------------- Token objects
\* Tokens as objects: heap[a] holds the fields of the Token at address a,
\* cache is the address BaseAuthenticator.__token refers to (0 for None).
\* The Token a reference denotes.
Deref(a) == IF a = 0 THEN None ELSE Some(heap[a])

\* auth.py:52-57 and 67-69, a caller invokes obtain_token; on the branch
\* that awaits nothing the call returns the object the cache refers to.
CallObtainTokenObj(p) ==
    /\ Idle(p)
    /\ Step(p, EnterObtainToken([NoCall EXCEPT !.op = "obtain_token"]))
    /\ held' = IF Branch(token, now) = "valid" THEN held \cup {cache} ELSE held
    /\ UNCHANGED <<heap, cache>>
    /\ UNCHANGED <<objvars, rendervars>>
    /\ UNCHANGED <<now, build, issued, authenticator, token,
                   message_queue, event_queue>>

\* auth.py:77-103 and 61-69, the reply to the request of
\* _get_token_from_idp: Token(...) at auth.py:96 constructs a new object,
\* which obtain_token stores (auth.py:61) and returns (auth.py:69).
FetchReplyObj(p) ==
    /\ pc[p] = "fetch_wait"
    /\ Delivered
    /\ \E reply \in IdpReplies :
          /\ OnFetchReply(p, reply)
          /\ IF IdpFailed(reply.status_code) \/ ~timedelta_defined
             THEN UNCHANGED <<heap, cache, held>>
             ELSE /\ Len(heap) < MaxHeap
                  /\ heap' = Append(heap, TokenFromReply(reply, now))
                  /\ cache' = Len(heap) + 1
                  /\ held' = held \cup {Len(heap) + 1}
    /\ UNCHANGED <<objvars, rendervars>>
    /\ UNCHANGED <<now, build, authenticator, message_queue, event_queue>>

\* auth.py:13-19, Token(...) called directly (the dataclass is public):
\* a new object with the given fields; the Authenticator does not see it.
NewToken ==
    /\ Len(heap) < MaxHeap
    /\ \E expires_at \in TokenTimes, refresh_expires_at \in TokenTimes :
          heap' = Append(heap, Token("Bearer", "at1", expires_at,
                                     "rt1", refresh_expires_at))
    /\ UNCHANGED <<cache, held>>
    /\ UNCHANGED <<objvars, rendervars>>
    /\ UNCHANGED <<now, build, issued, authenticator, token,
                   message_queue, event_queue, pc, call>>

\* No object constructed, no error rendered, no Token constructed.
NoObjects ==
    /\ thing_args = None /\ thing = None /\ warnings = << >>
    /\ objects = [c \in Components |-> NoObject]
    /\ closes = {}
NoRender == error = None /\ rendered = None
NoTokens == heap = << >> /\ cache = 0 /\ held = {}

\* After construction (auth.py:40-46, broker.py:37-50): no token is cached.
\* A ClientAuthenticator is the one a Broker builds for its Thing
\* (broker.py:46-48); a PasswordAuthenticator stands alone.
Init ==
    /\ now = 0
    /\ timedelta_defined = FALSE
    /\ issued = None
    /\ broker_imports \in BOOLEAN
    /\ authenticator \in {"ClientAuthenticator", "PasswordAuthenticator"}
    /\ token = None
    /\ message_queue = ThingMessageQueue(ThingId, Some(<<109>>))
    /\ event_queue = ThingEventQueue(ThingId, Some(<<101>>))
    /\ pc = [p \in Callers |-> "idle"]
    /\ call = [p \in Callers |-> NoCall]
    /\ NoObjects /\ NoRender /\ NoTokens

Next ==
    \/ \E p \in Callers : CallObtainToken(p)
    \/ \E p \in Callers : CallSend(p)
    \/ \E p \in Callers : CallReceive(p)
    \/ \E p \in Callers : FetchReply(p)
    \/ \E p \in Callers : Deliver(p)
    \/ Tick

Spec == Init /\ [][Next]_vars

\* Why RefreshReply, SendReply and ReceiveReply are no steps of Next: a call
\* awaits a refresh reply only when a Token is cached, and a broker reply
\* only after obtain_token returned a Token; every reply below 400 ends in
\* the NameError of auth.py:99, so no Token is ever cached or returned and
\* the three are never enabled.
NoTokenEver ==
    /\ ~timedelta_defined
    /\ token = None
    /\ cache = 0 /\ held = {}
    /\ \A p \in Callers :
          /\ pc[p] \in {"idle", "fetch_wait", "done"}
          /\ call[p].broker_requests = << >>
          /\ call[p].outcome # "returned"
          /\ \A i \in 1..Len(call[p].idp_requests) :
                call[p].idp_requests[i].grant_type # "refresh_token"

\* Before any object, error or Token is constructed; no call runs.
InitIdle ==
    /\ now = 0
    /\ timedelta_defined = FALSE
    /\ issued = None
    /\ broker_imports \in BOOLEAN
    /\ authenticator = "ClientAuthenticator"
    /\ token = None
    /\ message_queue = << >>
    /\ event_queue = << >>
    /\ pc = [p \in Callers |-> "idle"]
    /\ call = [p \in Callers |-> NoCall]
    /\ NoObjects /\ NoRender /\ NoTokens

NextObjects ==
    \/ NewThing
    \/ NewAuthenticator
    \/ NewBroker
    \/ \E c \in Components : Del(c)

SpecObjects == InitIdle /\ [][NextObjects]_vars

\* Errors being constructed and rendered.
NextRender == NewError \/ StrError

SpecRender == InitIdle /\ [][NextRender]_vars

\* Tokens being constructed, and callers obtaining tokens concurrently, as
\* time passes; the Tokens are objects.
InitTokens ==
    /\ now = 0
    /\ timedelta_defined = FALSE
    /\ issued = None
    /\ broker_imports \in BOOLEAN
    /\ authenticator \in {"ClientAuthenticator", "PasswordAuthenticator"}
    /\ token = None
    /\ message_queue = << >>
    /\ event_queue = << >>
    /\ pc = [p \in Callers |-> "idle"]
    /\ call = [p \in Callers |-> NoCall]
    /\ NoObjects /\ NoRender /\ NoTokens

NextTokens ==
    \/ NewToken
    \/ \E p \in Callers : CallObtainTokenObj(p)
    \/ \E p \in Callers : FetchReplyObj(p)
    \/ \E p \in Callers : Deliver(p)
    \/ Tick

SpecTokens == InitTokens /\ [][NextTokens]_vars

\* ================================================================ claims
\* Caller p starts a call in this step.
Starts(p) == pc[p] = "idle" /\ pc'[p] # "idle"

\* The identity provider's answer to caller p's request arrives in this step.
IdpAnswers(p, wait) == pc[p] = wait /\ pc'[p] # wait

\* "/all" as character codes.
SlashAll == <<47, 97, 108, 108>>

\* The Token of the document the identity provider issued last: the one
\* the Authenticator is to hold from then on (spec section 4).
IssuedToken == TokenFromReply(The(issued).reply, The(issued).at)

\* C1: a call that finds a cached Token whose expiresAt is still ahead
\* issues no identity-provider request, leaves the cache as it is, and
\* obtain_token returns that cached Token; so after a fetch that the
\* identity provider answered with a token, a call that starts before that
\* token's expiresAt issues no identity-provider request (one fetch, N
\* reads, one outbound request).
C1_FreshTokenServedFromCache ==
    [][\A p \in Callers :
          /\ (Starts(p) /\ ~IsNone(token) /\ now < The(token).expires_at)
             => /\ call'[p].idp_requests = << >>
                /\ token' = token
                /\ (call'[p].op = "obtain_token"
                      => /\ call'[p].outcome = "returned"
                         /\ call'[p].returned = token)
          /\ (Starts(p) /\ ~IsNone(issued) /\ now < IssuedToken.expires_at)
             => call'[p].idp_requests = << >>
      ]_vars

C3_FullReauthentication ==
    [][\A p \in Callers :
          /\ (Starts(p)
                /\ (IsNone(token)
                      \/ (now >= The(token).expires_at
                            /\ now >= The(token).refresh_expires_at)))
             => call'[p].idp_requests = <<BuildAuthPayload(authenticator)>>
          /\ (IdpAnswers(p, "fetch_wait")
                /\ The(call'[p].idp_reply).status_code < 400)
             => /\ ~IsNone(token')
                /\ call'[p].outcome # "raised"
                /\ (call'[p].op = "obtain_token" => call'[p].returned = token')
      ]_vars

\* C5: at most one identity-provider request (refresh or full fetch) is in
\* flight for the Authenticator at any moment.
C5_SingleFlight ==
    Cardinality({p \in Callers : pc[p] \in {"fetch_wait", "refresh_wait"}}) <= 1

\* C6: a call that received an identity-provider reply of 400 or more fails
\* with InvalidCredentialsError when the body is the invalid-client JSON and
\* with an AuthenticationError that is no InvalidCredentialsError otherwise;
\* the error carries the reply's status code and raw body.
C6_IdpFailureClassified ==
    \A p \in Callers :
        (pc[p] = "done" /\ ~IsNone(call[p].idp_reply)
            /\ The(call[p].idp_reply).status_code >= 400)
        => LET r == The(call[p].idp_reply)
               e == The(call[p].raised)
           IN  /\ call[p].outcome = "raised"
               /\ (r.text = InvalidClientBody
                     => e.type = "InvalidCredentialsException")
               /\ (r.text # InvalidClientBody
                     => /\ IsInstance(e, "AuthenticationException")
                        /\ ~IsInstance(e, "InvalidCredentialsException"))
               /\ e.status_code = Some(r.status_code)
               /\ e.response = Some(r.text)

\* A call ended on a 401 reply whose body is the invalid-client JSON,
\* raising InvalidCredentialsException with that status and body.
C6_Witness ==
    \E p \in Callers :
        /\ pc[p] = "done" /\ ~IsNone(call[p].idp_reply)
        /\ The(call[p].idp_reply).status_code = 401
        /\ The(call[p].idp_reply).text = InvalidClientBody
        /\ call[p].outcome = "raised"
        /\ The(call[p].raised).type = "InvalidCredentialsException"
        /\ The(call[p].raised).response = Some(InvalidClientBody)

\* The identity provider answered p's call with a token (a reply below 400).
TokenIssuedTo(p) ==
    ~IsNone(call[p].idp_reply) /\ The(call[p].idp_reply).status_code < 400

C8_ReceivePath ==
    \A p \in Callers :
        (call[p].op = "receive" /\ (TokenIssuedTo(p) \/ pc[p] = "receive_wait"))
        => /\ Len(call[p].broker_requests) = 1
           /\ call[p].broker_requests[1].method = "GET"
           /\ call[p].broker_requests[1].url =
                 DEFAULT_BROKER_URL \o <<47>>
                 \o (IF call[p].event THEN event_queue ELSE message_queue)
                 \o (IF call[p].all THEN SlashAll ELSE << >>)

C10_NoRetryFailuresSurfaced ==
    \A p \in Callers :
        /\ Len(call[p].idp_requests) <= 1
        /\ Len(call[p].broker_requests) <= 1
        /\ (call[p].op = "obtain_token" => call[p].broker_requests = << >>)
        /\ (~IsNone(call[p].idp_reply)
              /\ The(call[p].idp_reply).status_code >= 400)
           => /\ pc[p] = "done" /\ call[p].outcome = "raised"
              /\ IsInstance(The(call[p].raised), "S3IException")
              /\ The(call[p].raised).status_code
                    = Some(The(call[p].idp_reply).status_code)
              /\ call[p].broker_requests = << >>
        /\ (~IsNone(call[p].broker_reply)
              /\ The(call[p].broker_reply).status_code
                    # (IF call[p].op = "send" THEN 201 ELSE 200))
           => /\ pc[p] = "done" /\ call[p].outcome = "raised"
              /\ IsInstance(The(call[p].raised), "S3IException")
              /\ The(call[p].raised).status_code
                    = Some(The(call[p].broker_reply).status_code)

\* A send ended on a failed identity-provider reply after its one request.
C10_Witness ==
    \E p \in Callers :
        /\ pc[p] = "done" /\ call[p].op = "send"
        /\ Len(call[p].idp_requests) = 1
        /\ ~IsNone(call[p].idp_reply)
        /\ The(call[p].idp_reply).status_code >= 400
        /\ call[p].outcome = "raised"

\* C16: for every Token that was constructed and the current time, expired
\* is true exactly when now >= expiresAt and refreshExpired is true exactly
\* when now >= refreshExpiresAt; in particular a Token constructed just now
\* with positive lifetimes is neither expired nor refresh-expired.
C16_ExpiryDerivation ==
    \A a \in 1..Len(heap) :
        /\ expired(heap[a], now) <=> now >= heap[a].expires_at
        /\ refresh_expired(heap[a], now) <=> now >= heap[a].refresh_expires_at

\* The step in which the obtain_token of p's call ends: its reply from the
\* identity provider is taken, or it is entered on the branch that awaits
\* nothing.
ObtainEnds(p) ==
    \/ pc[p] \in {"fetch_wait", "refresh_wait"} /\ pc'[p] # pc[p]
    \/ pc[p] = "idle" /\ pc'[p] \notin {"idle", "fetch_wait", "refresh_wait"}

\* The obtain_token of p's call ends raising.
ObtainFails(p) ==
    /\ ObtainEnds(p)
    /\ pc'[p] = "done"
    /\ call'[p].outcome = "raised"
    /\ call'[p].broker_requests = << >>

\* C18: the step that ends an obtain_token raising leaves the cached Token
\* as it was, the step that ends it returning leaves in the cache the Token
\* it returned, and after a reply below 400 from the identity provider the
\* cache is not empty.
C18_CacheAfterObtain ==
    [][ \A p \in Callers :
            ObtainEnds(p) =>
                /\ ObtainFails(p) => token' = token
                /\ ~ObtainFails(p) =>
                      /\ ~IsNone(token')
                      /\ call'[p].op = "obtain_token"
                            => call'[p].returned = token'
                /\ (/\ ~IsNone(call'[p].idp_reply)
                    /\ The(call'[p].idp_reply).status_code < 400)
                   => ~IsNone(token')
      ]_vars

\* The step in which p's call issues its broker request.
IssuesBrokerRequest(p) ==
    call[p].broker_requests = << >> /\ call'[p].broker_requests # << >>

\* The broker request of p's call follows an obtain_token that returned a
\* Token (the one the Authenticator now holds) and carries
\* "{auth_scheme} {token_content}" of that Token.
C15_RequestAfterToken(p) ==
    IssuesBrokerRequest(p) =>
        /\ ObtainEnds(p)
        /\ ~IsNone(token')
        /\ call'[p].broker_requests[1].authorization
              = The(token').auth_scheme \o " " \o The(token').token_content

\* C15: within send and receive the broker request is issued only in the
\* step in which the call's obtain_token returns a Token, and carries that
\* Token's "{authScheme} {tokenContent}"; when obtain_token fails, the call
\* fails with an authentication error and has issued no broker request.
C15_TokenBeforeBrokerRequest ==
    [][ \A p \in Callers :
            /\ C15_RequestAfterToken(p)
            /\ (ObtainFails(p) /\ call'[p].op \in {"send", "receive"}) =>
                  /\ IsInstance(The(call'[p].raised), "AuthenticationException")
                  /\ call'[p].broker_requests = << >>
      ]_vars

\* "s3ibs://", "s3ib://" and "/event" as character codes.
S3ibsScheme == <<115, 51, 105, 98, 115, 58, 47, 47>>
S3ibScheme == <<115, 51, 105, 98, 58, 47, 47>>
SlashEvent == <<47, 101, 118, 101, 110, 116>>

\* The warnings of the latest Thing construction whose text starts with t.
WarningsWith(t) == SelectSeq(warnings, LAMBDA w : w.level = "WARNING" /\ w.text = t)

\* C12: a component that ended has called close() on its client exactly
\* when it constructed that client itself, and no component ever calls
\* close() on a client it was given (the Broker's Authenticator included).
C12_TransportOwnership ==
    /\ \A c \in Components :
          objects[c].state = "dead"
             => (<<c, objects[c].client>> \in closes <=> objects[c].client = c)
    /\ \A x \in closes : x[2] = x[1]

\* C13: after Thing(id, secret, messageQueue, eventQueue), the message queue
\* is "s3ibs://{id}" with one warning logged when none was given and the
\* given value with no such warning otherwise; the event queue is
\* "s3ib://{id}/event" with one warning when none was given and the given
\* value with no such warning otherwise; each is decided by its own
\* argument alone.
C13_ThingDefaults ==
    ~IsNone(thing_args) =>
        LET a == The(thing_args)
            t == The(thing)
            mw == WarningsWith("No message queue provided. Generated default message queue: ")
            ew == WarningsWith("No event queue provided. Generated default event queue: ")
        IN  /\ t.id = a.id
            /\ IF IsNone(a.message_queue)
               THEN /\ t.message_queue = S3ibsScheme \o a.id
                    /\ Len(mw) = 1 /\ mw[1].queue = t.message_queue
               ELSE /\ t.message_queue = The(a.message_queue)
                    /\ mw = << >>
            /\ IF IsNone(a.event_queue)
               THEN /\ t.event_queue = S3ibScheme \o a.id \o SlashEvent
                    /\ Len(ew) = 1 /\ ew[1].queue = t.event_queue
               ELSE /\ t.event_queue = The(a.event_queue)
                    /\ ew = << >>
            /\ Len(warnings) = Len(mw) + Len(ew)

\* A Thing constructed without message queue and with the empty string as
\* event queue: one default, one warning, the event queue passed through.
C13_Witness ==
    /\ ~IsNone(thing_args)
    /\ IsNone(The(thing_args).message_queue)
    /\ The(thing_args).event_queue = Some(<< >>)
    /\ The(thing).event_queue = << >>
    /\ Len(warnings) = 1

\* The diagnostic fields in the order of the claim, with the label each is
\* rendered under ("Headers:", "Body:", "Status Code:", "Response:") and
\* the text of its value in error e.
FieldLabel ==
    <<  <<72, 101, 97, 100, 101, 114, 115, 58>>,
        <<66, 111, 100, 121, 58>>,
        <<83, 116, 97, 116, 117, 115, 32, 67, 111, 100, 101, 58>>,
        <<82, 101, 115, 112, 111, 110, 115, 101, 58>>  >>

FieldValue(e) == <<e.headers, e.body, e.status_code, e.response>>

FieldText(e, f) ==
    IF f = 3
    THEN CASE e.status_code = Some(0) -> <<48>>
           [] e.status_code = Some(401) -> <<52, 48, 49>>
           [] OTHER -> << >>
    ELSE The(FieldValue(e)[f])

\* Where text sub occurs in text s.
Occurrences(sub, s) ==
    {i \in 1..(Len(s) - Len(sub) + 1) : SubSeq(s, i, i + Len(sub) - 1) = sub}

\* s without the line feeds, blanks and no-break spaces at its end.
WithoutTrailingBlanks(s) ==
    IF \E n \in 0..Len(s) :
          /\ \A i \in (n + 1)..Len(s) : s[i] \in {10, 32, 160}
          /\ n > 0 => s[n] \notin {10, 32, 160}
    THEN SubSeq(s, 1, CHOOSE n \in 0..Len(s) :
                         /\ \A i \in (n + 1)..Len(s) : s[i] \in {10, 32, 160}
                         /\ n > 0 => s[n] \notin {10, 32, 160})
    ELSE s

\* C14: str(error) starts with the message; the label of a diagnostic field
\* occurs in it once when the field is not None and not at all when it is
\* None; the labels that occur stand after the message in the order
\* headers, body, status code, response; and each is followed by its
\* field's value up to the next label (nothing else is in the text).
C14_RenderingOrder ==
    (~IsNone(error) /\ ~IsNone(rendered)) =>
        LET e == The(error)
            s == The(rendered)
            present == {f \in 1..4 : ~IsNone(FieldValue(e)[f])}
            occ(f) == Occurrences(FieldLabel[f], s)
            pos(f) == CHOOSE i \in occ(f) : TRUE
            next(f) == IF \E g \in present : g > f
                       THEN pos(CHOOSE g \in present :
                                   g > f /\ \A h \in present : h > f => g <= h)
                       ELSE Len(s) + 1
        IN  /\ SubSeq(s, 1, Len(e.message)) = e.message
            /\ \A f \in 1..4 :
                  Cardinality(occ(f)) = IF f \in present THEN 1 ELSE 0
            /\ \A f \in present, g \in present : f < g => pos(f) < pos(g)
            /\ \A f \in present :
                  /\ pos(f) > Len(e.message)
                  /\ (\A g \in present : f <= g) =>
                        pos(f) = IF e.message = << >> THEN 1
                                 ELSE Len(e.message) + 2
                  /\ SubSeq(s, pos(f) + Len(FieldLabel[f]), next(f) - 1)
                        = IF next(f) <= Len(s)
                          THEN <<32>> \o FieldText(e, f) \o <<124, 32>>
                          ELSE WithoutTrailingBlanks(<<32>> \o FieldText(e, f))
            /\ present = {} => s = e.message

\* The rendering of an error with message "E", no headers, the empty body,
\* status code 0 and a response.
C14_Witness ==
    /\ ~IsNone(error) /\ ~IsNone(rendered)
    /\ The(error).message = <<69>>
    /\ The(error).headers = None
    /\ The(error).body = Some(<< >>)
    /\ The(error).status_code = Some(0)
    /\ The(error).response = Some(<<114, 10>>)
    /\ Len(The(rendered)) > 1

\* C17: no step changes a field of a Token that exists; whenever the
\* Authenticator's cache comes to refer to something else, it refers to a
\* Token constructed in that step; and a re-authentication the identity
\* provider answers with a token makes the cache refer to a Token
\* constructed in that step.  So every Token handed to a caller keeps the
\* values it was handed out with.
C17_TokensOnlySuperseded ==
    [][ /\ \A a \in 1..Len(heap) : a <= Len(heap') /\ heap'[a] = heap[a]
        /\ held \subseteq held'
        /\ cache' # cache => cache' \in (Len(heap) + 1)..Len(heap')
        /\ \A p \in Callers :
              (IdpAnswers(p, "fetch_wait") /\ TokenIssuedTo(p)')
              => cache' \in (Len(heap) + 1)..Len(heap')
      ]_vars

\* The value kept in BaseAuthenticator.__token is the object the cache
\* refers to.
CacheDenotesToken == token = Deref(cache)

\* No step changes a field of a Token that exists.
TokensImmutable ==
    [][ \A a \in 1..Len(heap) : a <= Len(heap') /\ heap'[a] = heap[a] ]_vars

====
